---- MODULE Spec2Model ----
(***************************************************************************)
(* Smart File Sorter: the cancellable sort / duplicate-scan / face-album   *)
(* workers of smart_file_sorter.py, the Worker thread that runs them, and  *)
(* the single-slot start logic of ModernApp.                               *)
(***************************************************************************)
EXTENDS Integers, Sequences, FiniteSets, TLC

\* ------------------------------------------------------------------ bounds
MaxSortFiles == 3   \* files present in the tree before a sort
MaxDupFiles == 3    \* files of the duplicate-scan inputs present in the tree
MaxPhotos == 3      \* files of the face inputs present in the tree
MaxStarts == 3      \* start requests the application model accepts

VARIABLES
    target,       \* Worker._target: the operation the thread runs
    args,         \* the options bound to the operation's parameters
    pc,           \* position of the worker thread
    stop_event,   \* Worker._stop_event
    fs,           \* the files of the tree: path -> metadata
    dirs,         \* the directories of the tree (relative to base)
    files,        \* the enumerated list (files / photos)
    idx,          \* loop counter (idx / current_grp), 0 before the loop
    progress,     \* the values handed to progress_cb, in order
    logs,         \* the lines handed to log_cb, in order
    results,      \* the payloads handed to result_cb, in order
    size_map,     \* duplicate scan: the size buckets, in insertion order
    duplicates,   \* duplicate scan: the groups found so far
    clusters,     \* face grouping: the clusters, in creation order
    final_groups, \* face grouping: the realized album paths per cluster
    hist,         \* observations of the run (calls made, faults injected)
    app           \* ModernApp: current_worker, selected_dir, threads, warnings

engine == <<target, args, pc, stop_event, fs, dirs, files, idx, progress, logs,
            results, size_map, duplicates, clusters, final_groups, hist>>
vars == <<target, args, pc, stop_event, fs, dirs, files, idx, progress, logs,
          results, size_map, duplicates, clusters, final_groups, hist, app>>

\* ----------------------------------------------------------------- helpers
SeqToSet(s) == {s[i] : i \in DOMAIN s}

Perms(S) == {s \in [1..Cardinality(S) -> S] :
                \A i, j \in 1..Cardinality(S) : i # j => s[i] # s[j]}

IsPrefix(k, s) == Len(k) <= Len(s) /\ \A i \in 1..Len(k) : k[i] = s[i]

\* A path below base: directory components, and the name split as pathlib
\* does (stem, suffix). The stem is a text followed by the " (i)" parts that
\* unique_dest appends, kept as numbers: "a (1) (2)" is stem "a", n <<1, 2>>.
Path(dir, stem, n, suffix) == [dir |-> dir, stem |-> stem, n |-> n, suffix |-> suffix]

InDir(dir, p) == [p EXCEPT !.dir = dir]

Meta(content, mtime, exif, encs) ==
    [content |-> content, mtime |-> mtime, exif |-> exif, encs |-> encs]

NoExif == <<>>

\* ------------------------------------------------------------ configuration
EXTENSIONS ==
    [g \in {"Photos", "Videos", "Audio", "Documents", "PDFs", "Presentations",
            "Spreadsheets", "Archives", "Code"} |->
        CASE g = "Photos" -> {".jpg", ".jpeg", ".png", ".gif", ".bmp", ".tiff", ".webp", ".heic"}
          [] g = "Videos" -> {".mp4", ".mkv", ".mov", ".avi", ".wmv", ".flv", ".webm"}
          [] g = "Audio" -> {".mp3", ".wav", ".aac", ".flac", ".ogg", ".m4a"}
          [] g = "Documents" -> {".doc", ".docx", ".odt", ".rtf", ".txt"}
          [] g = "PDFs" -> {".pdf"}
          [] g = "Presentations" -> {".ppt", ".pptx", ".key"}
          [] g = "Spreadsheets" -> {".xls", ".xlsx", ".csv", ".ods"}
          [] g = "Archives" -> {".zip", ".rar", ".7z", ".tar", ".gz", ".bz2"}
          [] g = "Code" -> {".py", ".java", ".c", ".cpp", ".js", ".ts", ".html", ".css", ".tsx", ".jsx"}]

InExtToGroup(ext) == \E g \in DOMAIN EXTENSIONS : ext \in EXTENSIONS[g]

EXT_TO_GROUP(ext) == CHOOSE g \in DOMAIN EXTENSIONS : ext \in EXTENSIONS[g]

MIME_MAP ==
    << [key |-> <<"image">>, group |-> "Photos"],
       [key |-> <<"video">>, group |-> "Videos"],
       [key |-> <<"audio">>, group |-> "Audio"],
       [key |-> <<"application", "pdf">>, group |-> "PDFs"],
       [key |-> <<"text">>, group |-> "Documents"] >>

DEFAULT_FOLDERS ==
    <<"Photos", "Videos", "Audio", "Documents", "PDFs", "Presentations",
      "Spreadsheets", "Archives", "Code", "Others">>

\* str.lower() on the suffixes the inputs use.
Lower(ext) ==
    CASE ext = ".JPG" -> ".jpg"
      [] ext = ".Txt" -> ".txt"
      [] ext = ".SVG" -> ".svg"
      [] ext = ".CSV" -> ".csv"
      [] OTHER -> ext

NoMime == <<>>

\* mimetypes.guess_type on the suffixes the inputs use: (type, subtype), or
\* None for a suffix the table does not know.
guess_type(p) ==
    CASE Lower(p.suffix) = ".svg" -> <<"image", "svg+xml">>
      [] Lower(p.suffix) = ".json" -> <<"application", "json">>
      [] Lower(p.suffix) = ".ics" -> <<"text", "calendar">>
      [] Lower(p.suffix) = ".mpeg" -> <<"video", "mpeg">>
      [] Lower(p.suffix) = ".jpg" -> <<"image", "jpeg">>
      [] Lower(p.suffix) = ".txt" -> <<"text", "plain">>
      [] Lower(p.suffix) = ".pdf" -> <<"application", "pdf">>
      [] Lower(p.suffix) = ".csv" -> <<"text", "csv">>
      [] Lower(p.suffix) = ".html" -> <<"text", "html">>
      [] Lower(p.suffix) = ".py" -> <<"text", "x-python">>
      [] Lower(p.suffix) = ".rtf" -> <<"application", "rtf">>
      [] Lower(p.suffix) = ".zip" -> <<"application", "zip">>
      [] Lower(p.suffix) = ".png" -> <<"image", "png">>
      [] Lower(p.suffix) = ".mp4" -> <<"video", "mp4">>
      [] Lower(p.suffix) = ".mp3" -> <<"audio", "mpeg">>
      [] OTHER -> NoMime

RECURSIVE FirstMime(_, _)
FirstMime(mime, i) ==
    IF i > Len(MIME_MAP) THEN "Others"
    ELSE IF IsPrefix(MIME_MAP[i].key, mime) THEN MIME_MAP[i].group
    ELSE FirstMime(mime, i + 1)

\* detect_group with the two lookups swapped: the MIME rules are consulted
\* before the extension table.
DetectGroupMimeFirst(p) ==
    LET ext == Lower(p.suffix)
        mime == guess_type(p)
    IN  IF mime # NoMime /\ FirstMime(mime, 1) # "Others" THEN FirstMime(mime, 1)
        ELSE IF InExtToGroup(ext) THEN EXT_TO_GROUP(ext)
        ELSE "Others"

detect_group(p) ==
    LET ext == Lower(p.suffix)
        mime == guess_type(p)
    IN  IF InExtToGroup(ext) THEN EXT_TO_GROUP(ext)
        ELSE IF mime # NoMime THEN FirstMime(mime, 1)
        ELSE "Others"

\* ------------------------------------------------------- destination resolver
Cand(dest, i) == [dest EXCEPT !.n = Append(@, i)]

FirstIndex == 1

RECURSIVE UniqueFrom(_, _, _)
UniqueFrom(dest, i, existing) ==
    IF Cand(dest, i) \notin existing THEN Cand(dest, i)
    ELSE UniqueFrom(dest, i + 1, existing)

\* unique_dest left out: the requested path is used as it is.
UniqueDestIdentity(dest, existing) == dest

\* unique_dest without its loop: only " (1)" is tried.
UniqueDestNoLoop(dest, existing) ==
    IF dest \notin existing THEN dest ELSE Cand(dest, FirstIndex)

unique_dest(dest, existing) ==
    IF dest \notin existing THEN dest
    ELSE UniqueFrom(dest, FirstIndex, existing)

\* mkdir(parents=True, exist_ok=True): the directory and all its ancestors.
Ancestors(dir) == {SubSeq(dir, 1, k) : k \in 1..Len(dir)}

iter_files(tree, include_sub) ==
    IF include_sub THEN DOMAIN tree
    ELSE {p \in DOMAIN tree : p.dir = <<>>}

\* The tree after writing `meta` at `dst` / after removing `src`.
WithFile(tree, dst, meta) ==
    [p \in DOMAIN tree \cup {dst} |-> IF p = dst THEN meta ELSE tree[p]]

WithoutFile(tree, src) == [p \in DOMAIN tree \ {src} |-> tree[p]]

\* A move in the place of the copy: the source is gone afterwards.
CopyAsMove(tree, src, dst) == WithFile(WithoutFile(tree, src), dst, tree[src])

\* lines 139, 359: shutil.copy2 writes dst with the content and times of src.
copy2(tree, src, dst) == WithFile(tree, dst, tree[src])

TreeOf(E) == [p \in {e.path : e \in E} |-> (CHOOSE e \in E : e.path = p).meta]

DirsOf(tree) == UNION {Ancestors(p.dir) : p \in DOMAIN tree}

Bounded(U, k) == {E \in SUBSET U : Cardinality(E) <= k}

\* ------------------------------------------------------------------ inputs
Entry(path, meta) == [path |-> path, meta |-> meta]

Options(move_mode, include_sub, groups_selected, exif_by_date, images_only, pil, face) ==
    [move_mode |-> move_mode, include_sub |-> include_sub,
     groups_selected |-> groups_selected, exif_by_date |-> exif_by_date,
     images_only |-> images_only, PIL_AVAILABLE |-> pil, FACE_AVAILABLE |-> face]

\* Files a sort may find: two of the same name in different folders, a
\* document, and a file of unknown type.
SortInputs ==
    { Entry(Path(<<>>, "a", <<>>, ".jpg"), Meta("x", 1, <<"2020", "01">>, <<>>)),
      Entry(Path(<<"sub">>, "a", <<>>, ".jpg"), Meta("y", 2, NoExif, <<>>)),
      Entry(Path(<<>>, "c", <<>>, ".txt"), Meta("z", 3, NoExif, <<>>)),
      Entry(Path(<<>>, "n", <<>>, ".zzz"), Meta("x", 4, NoExif, <<>>)) }

\* What an earlier sort may have left in the Photos folder.
PriorFiles ==
    { Entry(Path(<<"Photos">>, "a", <<>>, ".jpg"), Meta("old", 0, NoExif, <<>>)),
      Entry(Path(<<"Photos">>, "a", <<1>>, ".jpg"), Meta("older", 0, NoExif, <<>>)) }

SortTrees == {TreeOf(E) : E \in Bounded(SortInputs \cup PriorFiles, MaxSortFiles)}

SortOptions ==
    {Options(m, s, g, e, FALSE, pil, TRUE) :
        m \in BOOLEAN, s \in BOOLEAN, g \in {{}, {"Photos"}},
        e \in BOOLEAN, pil \in BOOLEAN}

\* ------------------------------------------------------------- observations
NoCall == [called |-> FALSE]

InitHist ==
    [polls |-> 0,          \* polls of the stop event made by the loop
     stop_polls |-> -1,    \* polls made when Worker.stop() was called, -1 if never
     units |-> 0,          \* units of work the loop has carried out
     faults |-> 0,         \* per-item failures that have occurred
     fault_logs |-> 0,     \* log lines written for a per-item failure
     setup_fault |-> FALSE,\* the enumeration of base failed
     hashed |-> {},        \* the calls of sha256: file, bucket, whether it could read
     extracted |-> {},     \* the calls of face_encodings_for_image and what came of them
     ud |-> NoCall,        \* the last call of unique_dest
     scan |-> <<>>,        \* the tree when sort_worker listed its files
     placed |-> <<>>]      \* source and returned path of each safe_copy / safe_move

Emit(seq, items) == seq \o items

\* The fraction of the work still to do instead of the fraction done.
FractionRemaining(i, total) == <<total - i, total>>

\* idx / total, current_grp / total_size_groups, (idx+1) / total: a fraction
\* kept as numerator and denominator.
Fraction(i, total) == <<i, total>>

One == <<1, 1>>

IsOne(v) == v[1] = v[2]

\* --------------------------------------------------------------- Worker
\* Worker.stop(): sets the event the operation polls.
Stop ==
    /\ ~stop_event
    /\ pc \notin {"done", "raised"}
    /\ stop_event' = TRUE
    /\ hist' = [hist EXCEPT !.stop_polls = hist.polls]
    /\ UNCHANGED <<target, args, pc, fs, dirs, files, idx, progress, logs, results,
                   size_map, duplicates, clusters, final_groups, app>>

\* --------------------------------------------------------------- sort_worker
ensure_dirs(ds) == ds \cup {<<DEFAULT_FOLDERS[i]>> : i \in DOMAIN DEFAULT_FOLDERS}

\* The filter without its test for an empty selection: with nothing selected
\* every file goes to Others.
SortGroupStrict(f) ==
    LET group == detect_group(f)
    IN  IF group \notin args.groups_selected THEN "Others" ELSE group

\* lines 234-236: the category filter.
SortGroup(f) ==
    LET group == detect_group(f)
    IN  IF args.groups_selected # {} /\ group \notin args.groups_selected
        THEN "Others" ELSE group

\* lines 238-244: the target directory, with the year/month folders of a photo.
SortTargetDir(f, tree) ==
    LET group == SortGroup(f)
    IN  IF group = "Photos" /\ args.exif_by_date /\ args.PIL_AVAILABLE
           /\ tree[f].exif # NoExif
        THEN <<group>> \o tree[f].exif
        ELSE <<group>>

\* A move that removes the source and writes nothing.
SafeMoveLosing(tree, src, dst) ==
    [tree |-> WithoutFile(tree, src), dst |-> unique_dest(dst, DOMAIN tree)]

\* lines 136-140: resolve the collision, copy, return the path used.
safe_copy(tree, src, dst) ==
    LET real == unique_dest(dst, DOMAIN tree)
    IN  [tree |-> copy2(tree, src, real), dst |-> real]

\* lines 142-146: resolve the collision, move, return the path used.
safe_move(tree, src, dst) ==
    LET real == unique_dest(dst, DOMAIN tree)
    IN  [tree |-> WithFile(WithoutFile(tree, src), real, tree[src]), dst |-> real]

\* lines 207-227: enumerate, give up on a scan failure or an empty list.
SortScan ==
    /\ target = "sort_worker" /\ pc = "start"
    /\ \E ok \in BOOLEAN :
         IF ~ok
         THEN /\ logs' = Emit(logs, <<"Scanning", "Scan failed">>)
              /\ hist' = [hist EXCEPT !.setup_fault = TRUE]
              /\ pc' = "done"
              /\ UNCHANGED <<files, dirs, progress>>
         ELSE \E order \in Perms(iter_files(fs, args.include_sub)) :
              IF Len(order) = 0
              THEN /\ logs' = Emit(logs, <<"Scanning", "No files found">>)
                   /\ progress' = Append(progress, One)
                   /\ pc' = "done"
                   /\ UNCHANGED <<files, dirs, hist>>
              ELSE /\ logs' = Emit(logs, <<"Scanning", "Found">>)
                   /\ dirs' = ensure_dirs(dirs)
                   /\ files' = order
                   /\ hist' = [hist EXCEPT !.scan = fs]
                   /\ pc' = "loop"
                   /\ UNCHANGED progress
    /\ UNCHANGED <<target, args, stop_event, fs, idx, results, size_map, duplicates,
                   clusters, final_groups, app>>

\* lines 229-232: the head of the loop, which polls the stop event.
SortCheck ==
    /\ target = "sort_worker" /\ pc = "loop"
    /\ IF idx = Len(files)
       THEN /\ pc' = "end"
            /\ UNCHANGED <<idx, logs, hist>>
       ELSE /\ idx' = idx + 1
            /\ hist' = [hist EXCEPT !.polls = @ + 1]
            /\ IF stop_event
               THEN /\ logs' = Append(logs, "Sorting cancelled")
                    /\ pc' = "end"
               ELSE /\ pc' = "body"
                    /\ UNCHANGED logs
    /\ UNCHANGED <<target, args, stop_event, fs, dirs, files, progress, results,
                   size_map, duplicates, clusters, final_groups, app>>

\* lines 233-258: place one file, log a failure, report progress.
SortItem ==
    /\ target = "sort_worker" /\ pc = "body"
    /\ LET f == files[idx]
           dst == InDir(SortTargetDir(f, fs), f)
           real == unique_dest(dst, DOMAIN fs)
           call == [called |-> TRUE, dest |-> dst, existing |-> DOMAIN fs, result |-> real]
           done == IF args.move_mode THEN safe_move(fs, f, dst) ELSE safe_copy(fs, f, dst)
       IN  /\ dirs' = dirs \cup Ancestors(dst.dir)
           /\ \E fail \in BOOLEAN :
                IF fail
                THEN /\ logs' = Append(logs, "Error")
                     /\ fs' = fs
                     /\ hist' = [hist EXCEPT !.units = @ + 1, !.faults = @ + 1,
                                             !.fault_logs = @ + 1, !.ud = call]
                ELSE /\ logs' = Append(logs, IF args.move_mode THEN "Moved" ELSE "Copied")
                     /\ fs' = done.tree
                     /\ hist' = [hist EXCEPT !.units = @ + 1, !.ud = call,
                                             !.placed = Append(@, [src |-> f, dst |-> done.dst])]
    /\ progress' = Append(progress, Fraction(idx, Len(files)))
    /\ pc' = "loop"
    /\ UNCHANGED <<target, args, stop_event, files, idx, results, size_map, duplicates,
                   clusters, final_groups, app>>

\* lines 260-261: the end of the operation.
SortEnd ==
    /\ target = "sort_worker" /\ pc = "end"
    /\ progress' = Append(progress, One)
    /\ logs' = Append(logs, "Operation complete")
    /\ pc' = "done"
    /\ UNCHANGED <<target, args, stop_event, fs, dirs, files, idx, results, size_map,
                   duplicates, clusters, final_groups, hist, app>>

\* ----------------------------------------------------- duplicate_scan_worker
\* st_size of a file with the given content.
Size(content) ==
    CASE content = "x" -> 1024
      [] content = "y" -> 1024
      [] content = "z" -> 50
      [] OTHER -> 7

\* sha256(path): the digest of the content read.
sha256(tree, f) == <<"sha256", tree[f].content>>

\* dict.setdefault(k, []).append(x) on a dict kept in insertion order.
SetDefaultAppend(d, k, x) ==
    IF \E i \in DOMAIN d : d[i].key = k
    THEN [i \in DOMAIN d |->
            IF d[i].key = k THEN [d[i] EXCEPT !.members = Append(@, x)] ELSE d[i]]
    ELSE Append(d, [key |-> k, members |-> <<x>>])

\* lines 276-281: bucket the files by size, skipping those whose stat fails.
RECURSIVE SizeMap(_, _, _, _)
SizeMap(tree, listed, bad, d) ==
    IF listed = <<>> THEN d
    ELSE LET f == Head(listed)
         IN  SizeMap(tree, Tail(listed), bad,
                     IF f \in bad THEN d ELSE SetDefaultAppend(d, Size(tree[f].content), f))

\* lines 298-303: group a bucket by digest, skipping those whose read fails.
RECURSIVE Hashes(_, _, _, _)
Hashes(tree, group, unreadable, d) ==
    IF group = <<>> THEN d
    ELSE LET f == Head(group)
         IN  Hashes(tree, Tail(group), unreadable,
                    IF f \in unreadable THEN d ELSE SetDefaultAppend(d, sha256(tree, f), f))

\* The skip test with its bound off by one.
SkipBucketEmptyOnly(group) == Len(group) < 1

\* line 293: a bucket that cannot hold duplicates.
SkipBucket(group) == Len(group) < 2

\* The group test with its bound off by one.
IsDuplicateOffByOne(h_group) == Len(h_group) >= 1

\* line 306: a digest group that is a duplicate group.
IsDuplicate(h_group) == Len(h_group) > 1

\* The last of the maxima instead of the first.
KeepLast(tree, h_group) ==
    h_group[CHOOSE i \in DOMAIN h_group :
                /\ \A j \in DOMAIN h_group : tree[h_group[j]].mtime <= tree[h_group[i]].mtime
                /\ \A j \in (i + 1)..Len(h_group) : tree[h_group[j]].mtime < tree[h_group[i]].mtime]

\* line 307: max(h_group, key=mtime), the first of the maxima.
Keep(tree, h_group) ==
    h_group[CHOOSE i \in DOMAIN h_group :
                /\ \A j \in DOMAIN h_group : tree[h_group[j]].mtime <= tree[h_group[i]].mtime
                /\ \A j \in 1..(i - 1) : tree[h_group[j]].mtime < tree[h_group[i]].mtime]

\* line 308: the group record.
DupGroup(tree, h_group) ==
    LET keep == Keep(tree, h_group)
        NotKeep(p) == p # keep
    IN  [keep |-> keep, delete |-> SelectSeq(h_group, NotKeep), reason |-> "exact"]

\* lines 305-308 over all digest groups of a bucket.
RECURSIVE DupGroups(_, _, _)
DupGroups(tree, hashes, i) ==
    IF i > Len(hashes) THEN <<>>
    ELSE (IF IsDuplicate(hashes[i].members)
          THEN <<DupGroup(tree, hashes[i].members)>> ELSE <<>>)
         \o DupGroups(tree, hashes, i + 1)

\* lines 264-288: list, filter, give up on an empty list, bucket by size.
DupList ==
    /\ target = "duplicate_scan_worker" /\ pc = "start"
    /\ \E ok \in BOOLEAN :
         IF ~ok
         THEN /\ logs' = Append(logs, "Listing files")
              /\ hist' = [hist EXCEPT !.setup_fault = TRUE]
              /\ pc' = "raised"
              /\ UNCHANGED <<files, size_map, results>>
         ELSE \E order \in Perms(iter_files(fs, args.include_sub)) :
              LET IsPhoto(f) == detect_group(f) = "Photos"
                  listed == IF args.images_only THEN SelectSeq(order, IsPhoto) ELSE order
              IN  IF Len(listed) = 0
                  THEN /\ logs' = Emit(logs, <<"Listing files", "No files to scan">>)
                       /\ results' = Append(results, <<>>)
                       /\ pc' = "done"
                       /\ UNCHANGED <<files, size_map, hist>>
                  ELSE \E bad \in SUBSET SeqToSet(listed) :
                       /\ logs' = Emit(logs, <<"Listing files", "Scanning for duplicates">>)
                       /\ files' = listed
                       /\ size_map' = SizeMap(fs, listed, bad, <<>>)
                       /\ hist' = [hist EXCEPT !.faults = @ + Cardinality(bad)]
                       /\ pc' = "loop"
                       /\ UNCHANGED results
    /\ UNCHANGED <<target, args, stop_event, fs, dirs, idx, progress, duplicates,
                   clusters, final_groups, app>>

\* lines 290-292: the head of the loop, which polls the stop event.
DupCheck ==
    /\ target = "duplicate_scan_worker" /\ pc = "loop"
    /\ IF idx = Len(size_map)
       THEN /\ pc' = "end"
            /\ UNCHANGED <<idx, hist>>
       ELSE /\ idx' = idx + 1
            /\ hist' = [hist EXCEPT !.polls = @ + 1]
            /\ pc' = IF stop_event THEN "end" ELSE "body"
    /\ UNCHANGED <<target, args, stop_event, fs, dirs, files, progress, logs, results,
                   size_map, duplicates, clusters, final_groups, app>>

\* lines 293-310: one size bucket.
\* A scan that deletes what it lists for deletion.
AfterGroupsDeleting(tree, found) ==
    LET gone == UNION {SeqToSet(found[i].delete) : i \in DOMAIN found}
    IN  [p \in DOMAIN tree \ gone |-> tree[p]]

\* lines 305-308: the groups are appended to the result list and nothing else
\* is done with their files; the tree after a bucket is the tree before it.
AfterGroups(tree, found) == tree

DupBucket ==
    /\ target = "duplicate_scan_worker" /\ pc = "body"
    /\ LET group == size_map[idx].members
       IN  IF SkipBucket(group)
           THEN /\ progress' = Append(progress, Fraction(idx, Len(size_map)))
                /\ hist' = [hist EXCEPT !.units = @ + 1]
                /\ pc' = "loop"
                /\ UNCHANGED <<duplicates, fs>>
           ELSE \E unreadable \in SUBSET SeqToSet(group), stat_ok \in BOOLEAN :
                LET hashes == Hashes(fs, group, unreadable, <<>>)
                    found == DupGroups(fs, hashes, 1)
                    calls == {[file |-> f, bucket |-> idx, ok |-> f \notin unreadable] :
                                 f \in SeqToSet(group)}
                IN  IF ~stat_ok /\ found # <<>>
                    THEN /\ pc' = "raised"
                         /\ hist' = [hist EXCEPT !.hashed = @ \cup calls,
                                                 !.faults = @ + Cardinality(unreadable) + 1]
                         /\ UNCHANGED <<progress, duplicates, fs>>
                    ELSE /\ stat_ok
                         /\ duplicates' = duplicates \o found
                         /\ fs' = AfterGroups(fs, found)
                         /\ progress' = Append(progress, Fraction(idx, Len(size_map)))
                         /\ hist' = [hist EXCEPT !.hashed = @ \cup calls,
                                                 !.units = @ + 1,
                                                 !.faults = @ + Cardinality(unreadable)]
                         /\ pc' = "loop"
    /\ UNCHANGED <<target, args, stop_event, dirs, files, idx, logs, results,
                   size_map, clusters, final_groups, app>>

\* lines 312-313: hand over the groups.
DupEnd ==
    /\ target = "duplicate_scan_worker" /\ pc = "end"
    /\ results' = Append(results, duplicates)
    /\ logs' = Append(logs, "Found duplicate groups")
    /\ pc' = "done"
    /\ UNCHANGED <<target, args, stop_event, fs, dirs, files, idx, progress, size_map,
                   duplicates, clusters, final_groups, hist, app>>

\* Files a duplicate scan may find: three of one content (two of them with the
\* same modification time), one of the same size and another content, one of
\* another size.
DupInputs ==
    { Entry(Path(<<>>, "a", <<>>, ".jpg"), Meta("x", 5, NoExif, <<>>)),
      Entry(Path(<<>>, "b", <<>>, ".jpg"), Meta("x", 5, NoExif, <<>>)),
      Entry(Path(<<"sub">>, "e", <<>>, ".jpg"), Meta("x", 7, NoExif, <<>>)),
      Entry(Path(<<>>, "d", <<>>, ".jpg"), Meta("y", 6, NoExif, <<>>)),
      Entry(Path(<<>>, "c", <<>>, ".txt"), Meta("z", 3, NoExif, <<>>)) }

DupTrees == {TreeOf(E) : E \in Bounded(DupInputs, MaxDupFiles)}

DupOptions ==
    {Options(FALSE, s, {}, FALSE, im, TRUE, TRUE) : s \in BOOLEAN, im \in BOOLEAN}

InitSort ==
    /\ target = "sort_worker"
    /\ args \in SortOptions
    /\ fs \in SortTrees

InitDup ==
    /\ target = "duplicate_scan_worker"
    /\ args \in DupOptions
    /\ fs \in DupTrees

\* ------------------------------------------------------ face_grouping_worker
\* face_recognition.face_distance on encodings laid out on a line, in tenths.
Dist(a, b) == IF a < b THEN b - a ELSE a - b

face_distance(encodings, enc) == [i \in DOMAIN encodings |-> Dist(encodings[i], enc)]

Threshold == 6

\* The comparison with the threshold included: a distance of 0.6 matches.
MatchesAtThreshold(c, enc) ==
    LET dists == face_distance(c.encodings, enc)
    IN  Len(dists) > 0 /\ \E i \in DOMAIN dists : dists[i] <= Threshold

\* line 339: len(dists) > 0 and min(dists) < 0.6
Matches(c, enc) ==
    LET dists == face_distance(c.encodings, enc)
    IN  Len(dists) > 0 /\ \E i \in DOMAIN dists : dists[i] < Threshold

\* The scan of the clusters without its break: the last match wins.
PlaceLast(cl, enc, p) ==
    IF \E i \in DOMAIN cl : Matches(cl[i], enc)
    THEN LET i == CHOOSE k \in DOMAIN cl :
                     Matches(cl[k], enc) /\ \A j \in (k + 1)..Len(cl) : ~Matches(cl[j], enc)
         IN  [cl EXCEPT ![i] = [encodings |-> Append(@.encodings, enc),
                                images |-> @.images \cup {p}]]
    ELSE Append(cl, [encodings |-> <<enc>>, images |-> {p}])

\* A scan that merges: when the encoding matches several clusters, the later
\* ones are folded into the first and removed from the list.
PlaceMerging(cl, enc, p) ==
    LET M == {i \in DOMAIN cl : Matches(cl[i], enc)}
    IN  IF M = {} THEN Append(cl, [encodings |-> <<enc>>, images |-> {p}])
        ELSE LET first == CHOOSE i \in M : \A j \in M : i <= j
                 grown == [cl EXCEPT ![first] =
                              [encodings |-> Append(@.encodings, enc),
                               images |-> UNION {cl[j].images : j \in M} \cup {p}]]
                 KeptGrown(c) == c = grown[first] \/ \A j \in M : cl[j] # c
             IN  SelectSeq(grown, KeptGrown)

\* lines 336-345: one encoding goes to the first matching cluster, or to a
\* new cluster at the end.
Place(cl, enc, p) ==
    IF \E i \in DOMAIN cl : Matches(cl[i], enc)
    THEN LET i == CHOOSE k \in DOMAIN cl :
                     Matches(cl[k], enc) /\ \A j \in 1..(k - 1) : ~Matches(cl[j], enc)
         IN  [cl EXCEPT ![i] = [encodings |-> Append(@.encodings, enc),
                                images |-> @.images \cup {p}]]
    ELSE Append(cl, [encodings |-> <<enc>>, images |-> {p}])

\* line 335: the encodings of one image, in order.
RECURSIVE PlaceAll(_, _, _)
PlaceAll(cl, encs, p) ==
    IF encs = <<>> THEN cl
    ELSE PlaceAll(Place(cl, Head(encs), p), Tail(encs), p)

PersonDir(i) == <<"Faces", "Person_" \o ToString(i)>>

\* lines 357-360: copy the first k images of `order` into p_dir.
RECURSIVE CopyInto(_, _, _, _, _)
CopyInto(acc, order, k, p_dir, i) ==
    IF i > k THEN acc
    ELSE LET img == order[i]
             dst == InDir(p_dir, img)
             dest == unique_dest(dst, DOMAIN acc.tree)
         IN  CopyInto([tree |-> copy2(acc.tree, img, dest),
                       img_list |-> Append(acc.img_list, dest),
                       ud |-> [called |-> TRUE, dest |-> dst,
                               existing |-> DOMAIN acc.tree, result |-> dest]],
                      order, k, p_dir, i + 1)

\* A capability check that never fires.
NotInstalledNever(a) == FALSE

\* line 316: if not FACE_AVAILABLE
NotInstalled(a) == ~a.FACE_AVAILABLE

\* lines 177-184: no vectors without the capability or for an image that
\* cannot be loaded.
face_encodings_for_image(a, tree, p, readable) ==
    IF ~a.FACE_AVAILABLE \/ ~readable THEN <<>> ELSE tree[p].encs

\* lines 315-330: capability check, list the photos, give up on an empty list.
FaceStart ==
    /\ target = "face_grouping_worker" /\ pc = "start"
    /\ IF NotInstalled(args)
       THEN /\ logs' = Append(logs, "Face recognition not installed")
            /\ progress' = Append(progress, One)
            /\ pc' = "done"
            /\ UNCHANGED <<files, hist>>
       ELSE \E ok \in BOOLEAN :
            IF ~ok
            THEN /\ hist' = [hist EXCEPT !.setup_fault = TRUE]
                 /\ pc' = "raised"
                 /\ UNCHANGED <<files, logs, progress>>
            ELSE \E photos \in Perms({p \in iter_files(fs, args.include_sub) :
                                         detect_group(p) = "Photos"}) :
                 IF Len(photos) = 0
                 THEN /\ logs' = Append(logs, "No photos found")
                      /\ progress' = Append(progress, One)
                      /\ pc' = "done"
                      /\ UNCHANGED <<files, hist>>
                 ELSE /\ logs' = Append(logs, "Analyzing faces")
                      /\ files' = photos
                      /\ pc' = "loop"
                      /\ UNCHANGED <<progress, hist>>
    /\ UNCHANGED <<target, args, stop_event, fs, dirs, idx, results, size_map,
                   duplicates, clusters, final_groups, app>>

\* lines 332-333: the head of the loop, which polls the stop event.
FaceCheck ==
    /\ target = "face_grouping_worker" /\ pc = "loop"
    /\ IF idx = Len(files)
       THEN /\ pc' = "mkdir"
            /\ UNCHANGED <<idx, hist>>
       ELSE /\ idx' = idx + 1
            /\ hist' = [hist EXCEPT !.polls = @ + 1]
            /\ pc' = IF stop_event THEN "mkdir" ELSE "body"
    /\ UNCHANGED <<target, args, stop_event, fs, dirs, files, progress, logs, results,
                   size_map, duplicates, clusters, final_groups, app>>

\* lines 334-347: one image; an extraction that fails yields no encodings.
FaceImage ==
    /\ target = "face_grouping_worker" /\ pc = "body"
    /\ \E readable \in BOOLEAN :
         LET p == files[idx]
             encs == face_encodings_for_image(args, fs, p, readable)
             grown == PlaceAll(clusters, encs, p)
             call == [img |-> p, encs |-> encs,
                      fresh |-> Len(grown) = Len(clusters) + Len(encs)]
         IN  /\ clusters' = grown
             /\ hist' = [hist EXCEPT !.units = @ + 1, !.extracted = @ \cup {call}]
    /\ progress' = Append(progress, Fraction(idx, Len(files)))
    /\ pc' = "loop"
    /\ UNCHANGED <<target, args, stop_event, fs, dirs, files, idx, logs, results,
                   size_map, duplicates, final_groups, app>>

\* lines 349-352: the Faces folder.
FaceMkdir ==
    /\ target = "face_grouping_worker" /\ pc = "mkdir"
    /\ dirs' = dirs \cup {<<"Faces">>}
    /\ final_groups' = <<>>
    /\ pc' = "albums"
    /\ UNCHANGED <<target, args, stop_event, fs, files, idx, progress, logs, results,
                   size_map, duplicates, clusters, hist, app>>

\* lines 353-361: the album of one cluster; a copy that fails raises.
FaceAlbum ==
    /\ target = "face_grouping_worker" /\ pc = "albums"
    /\ Len(final_groups) < Len(clusters)
    /\ LET i == Len(final_groups) + 1
           c == clusters[i]
       IN  /\ dirs' = dirs \cup {PersonDir(i)}
           /\ \E order \in Perms(c.images), k \in 0..Cardinality(c.images) :
                LET done == CopyInto([tree |-> fs, img_list |-> <<>>, ud |-> hist.ud],
                                     order, k, PersonDir(i), 1)
                IN  /\ fs' = done.tree
                    /\ IF k < Len(order)
                       THEN /\ pc' = "raised"
                            /\ hist' = [hist EXCEPT !.ud = done.ud, !.faults = @ + 1]
                            /\ UNCHANGED final_groups
                       ELSE /\ pc' = "albums"
                            /\ hist' = [hist EXCEPT !.ud = done.ud]
                            /\ final_groups' = Append(final_groups, done.img_list)
    /\ UNCHANGED <<target, args, stop_event, files, idx, progress, logs, results,
                   size_map, duplicates, clusters, app>>

\* lines 363-364: hand over the albums.
FaceEnd ==
    /\ target = "face_grouping_worker" /\ pc = "albums"
    /\ Len(final_groups) = Len(clusters)
    /\ logs' = Append(logs, "Created face albums")
    /\ results' = Append(results, final_groups)
    /\ pc' = "done"
    /\ UNCHANGED <<target, args, stop_event, fs, dirs, files, idx, progress, size_map,
                   duplicates, clusters, final_groups, hist, app>>

\* Photos a face grouping may find: faces at 0.0, 0.5, 1.0 and 1.1 (0.5 is
\* within the threshold of 0.0 and of 1.0, and exactly at it from 1.1), and
\* a photo with two faces that has the name of another photo.
FaceInputs ==
    { Entry(Path(<<>>, "p", <<>>, ".jpg"), Meta("x", 1, NoExif, <<0>>)),
      Entry(Path(<<>>, "q", <<>>, ".jpg"), Meta("y", 2, NoExif, <<5>>)),
      Entry(Path(<<>>, "r", <<>>, ".jpg"), Meta("z", 3, NoExif, <<10>>)),
      Entry(Path(<<>>, "s", <<>>, ".jpg"), Meta("z", 3, NoExif, <<11>>)),
      Entry(Path(<<"sub">>, "p", <<>>, ".jpg"), Meta("y", 4, NoExif, <<0, 20>>)) }

FaceTrees == {TreeOf(E) : E \in Bounded(FaceInputs, MaxPhotos)}

FaceOptions ==
    {Options(FALSE, s, {}, FALSE, FALSE, TRUE, fa) : s \in BOOLEAN, fa \in BOOLEAN}

InitFace ==
    /\ target = "face_grouping_worker"
    /\ args \in FaceOptions
    /\ fs \in FaceTrees

\* ------------------------------------------------------------------ ModernApp
\* Parameters of each operation, the stop event included (lines 207, 263, 315).
Arity(t) ==
    CASE t = "sort_worker" -> 8
      [] t = "duplicate_scan_worker" -> 9
      [] t = "face_grouping_worker" -> 6

\* Worker.__init__ (lines 190-195) and Thread.start().
NewWorker(t, nargs, root) ==
    [target |-> t, nargs |-> nargs, root |-> root, status |-> "started", raised |-> FALSE,
     delivered |-> 0]

\* Thread.is_alive(): from start() until run() returns.
IsAlive(a, w) == a.threads[w].status \in {"started", "running"}

AliveWorkers(a) == {w \in DOMAIN a.threads : IsAlive(a, w)}

\* lines 639-643, the condition of _check_running.
CheckRunningInverted(a) == a.current_worker # 0 /\ ~IsAlive(a, a.current_worker)

\* A slot per root: busy only when the live worker runs on the selected root.
CheckRunningPerRoot(a) ==
    /\ a.current_worker # 0
    /\ IsAlive(a, a.current_worker)
    /\ a.threads[a.current_worker].root = a.selected_dir

CheckRunning(a) == a.current_worker # 0 /\ IsAlive(a, a.current_worker)

Busy(a) == [a EXCEPT !.requests = @ + 1, !.warnings = Append(@, "Busy")]

NoFolder(a) == [a EXCEPT !.requests = @ + 1, !.warnings = Append(@, "No Folder")]

Started(a, t, nargs) ==
    [a EXCEPT !.requests = @ + 1,
              !.threads = Append(@, NewWorker(t, nargs, a.selected_dir)),
              !.current_worker = Len(a.threads) + 1]

Roots == {"d1", "d2"}

\* lines 602-606: pick a folder (a cancelled dialog changes nothing).
browse_folder ==
    /\ \E d \in Roots : d # app.selected_dir /\ app' = [app EXCEPT !.selected_dir = d]
    /\ UNCHANGED engine

\* lines 645-663.
start_sort ==
    /\ app.requests < MaxStarts
    /\ app' = IF CheckRunning(app) THEN Busy(app)
              ELSE IF app.selected_dir = "" THEN NoFolder(app)
              ELSE Started(app, "sort_worker", 7)
    /\ UNCHANGED engine

\* lines 665-684: the argument tuple starts with worker_stop_event.
start_dup ==
    /\ app.requests < MaxStarts
    /\ app' = IF CheckRunning(app) THEN Busy(app)
              ELSE IF app.selected_dir = "" THEN NoFolder(app)
              ELSE Started(app, "duplicate_scan_worker", 9)
    /\ UNCHANGED engine

\* lines 686-704: returns without a word when the capability is missing. The
\* button that calls start_face exists only with the capability: without it
\* _build_faces shows "Feature unavailable" and returns (lines 578-589).
start_face ==
    /\ app.requests < MaxStarts
    /\ app.FACE_AVAILABLE
    /\ app' = IF CheckRunning(app) THEN Busy(app)
              ELSE IF ~app.FACE_AVAILABLE THEN [app EXCEPT !.requests = @ + 1]
              ELSE IF app.selected_dir = "" THEN NoFolder(app)
              ELSE Started(app, "face_grouping_worker", 6)
    /\ UNCHANGED engine

\* lines 197-202: run() calls the target with its own stop event put before
\* the arguments; a call that does not bind raises TypeError, which is printed.
WorkerRun ==
    /\ \E w \in DOMAIN app.threads :
         /\ app.threads[w].status = "started"
         /\ app' = [app EXCEPT !.threads[w] =
                        IF @.nargs + 1 = Arity(@.target)
                        THEN [@ EXCEPT !.status = "running"]
                        ELSE [@ EXCEPT !.status = "dead", !.raised = TRUE]]
    /\ UNCHANGED engine

\* Calls of result_cb an operation whose body ran can have made when it ends:
\* sort_worker has no result callback; the other two call it once at their
\* end (lines 271, 312, 364) and not at all when they end early (lines
\* 317-319, 324-327) or by an exception.
Delivered(t) == IF t = "sort_worker" THEN {0} ELSE {0, 1}

\* The operation returns (or raises into run's handler): the thread ends.
WorkerReturn ==
    /\ \E w \in DOMAIN app.threads :
         /\ app.threads[w].status = "running"
         /\ \E d \in Delivered(app.threads[w].target) :
              app' = [app EXCEPT !.threads[w].status = "dead",
                                 !.threads[w].delivered = d]
    /\ UNCHANGED engine

NoApp ==
    [current_worker |-> 0, selected_dir |-> "", threads |-> <<>>, warnings |-> <<>>,
     requests |-> 0, FACE_AVAILABLE |-> TRUE]

\* lines 380-383: the application after construction, no operation started.
InitApp ==
    /\ app \in {[NoApp EXCEPT !.FACE_AVAILABLE = fa] : fa \in BOOLEAN}
    /\ target = "none"
    /\ args = Options(FALSE, FALSE, {}, FALSE, FALSE, TRUE, TRUE)
    /\ fs = <<>>
    /\ dirs = {}
    /\ pc = "idle"
    /\ stop_event = FALSE
    /\ files = <<>>
    /\ idx = 0
    /\ progress = <<>>
    /\ logs = <<>>
    /\ results = <<>>
    /\ size_map = <<>>
    /\ duplicates = <<>>
    /\ clusters = <<>>
    /\ final_groups = <<>>
    /\ hist = InitHist

NextApp ==
    \/ browse_folder
    \/ start_sort
    \/ start_dup
    \/ start_face
    \/ WorkerRun
    \/ WorkerReturn

Init ==
    /\ \/ InitSort
       \/ InitDup
       \/ InitFace
    /\ dirs = DirsOf(fs)
    /\ pc = "start"
    /\ stop_event = FALSE
    /\ files = <<>>
    /\ idx = 0
    /\ progress = <<>>
    /\ logs = <<>>
    /\ results = <<>>
    /\ size_map = <<>>
    /\ duplicates = <<>>
    /\ clusters = <<>>
    /\ final_groups = <<>>
    /\ hist = InitHist
    /\ app = NoApp

Next ==
    \/ Stop
    \/ SortScan
    \/ SortCheck
    \/ SortItem
    \/ SortEnd
    \/ DupList
    \/ DupCheck
    \/ DupBucket
    \/ DupEnd
    \/ FaceStart
    \/ FaceCheck
    \/ FaceImage
    \/ FaceMkdir
    \/ FaceAlbum
    \/ FaceEnd

\* ------------------------------------------------- detect_group on its own
MaxClassify == 2

ClassifySuffixes ==
    {".jpg", ".JPG", ".png", ".mp4", ".mp3", ".txt", ".Txt", ".pdf", ".pptx",
     ".csv", ".CSV", ".zip", ".gz", ".py", ".html", ".ts", ".rtf", ".svg",
     ".SVG", ".json", ".ics", ".mpeg", ".zzz", ""}

ClassifyInputs == {Path(<<>>, "a", <<>>, x) : x \in ClassifySuffixes}

InitClassify ==
    /\ target = "detect_group"
    /\ args = Options(FALSE, FALSE, {}, FALSE, FALSE, FALSE, FALSE)
    /\ pc = "start"
    /\ stop_event = FALSE
    /\ fs = <<>>
    /\ dirs = {}
    /\ \E n \in 1..MaxClassify : files \in [1..n -> ClassifyInputs]
    /\ idx = 0
    /\ progress = <<>>
    /\ logs = <<>>
    /\ results = <<>>
    /\ size_map = <<>>
    /\ duplicates = <<>>
    /\ clusters = <<>>
    /\ final_groups = <<>>
    /\ hist = InitHist
    /\ app = NoApp

\* One call of detect_group on the next path; results keeps the return values.
Classify ==
    /\ target = "detect_group"
    /\ pc = "start"
    /\ idx < Len(files)
    /\ idx' = idx + 1
    /\ results' = Append(results, detect_group(files[idx + 1]))
    /\ pc' = IF idx + 1 = Len(files) THEN "done" ELSE "start"
    /\ UNCHANGED <<target, args, stop_event, fs, dirs, files, progress, logs,
                   size_map, duplicates, clusters, final_groups, hist, app>>

NextClassify == Classify

Spec == Init /\ [][Next]_vars

SpecClassify == InitClassify /\ [][NextClassify]_vars

SpecApp == InitApp /\ [][NextApp]_vars

\* ================================================================== claims
Ones(seq) == Cardinality({i \in DOMAIN seq : IsOne(seq[i])})

\* What a caller can tell of the end of a run from the events it was handed:
\* the only line that reports a cancellation is the one of sort_worker.
TerminalState ==
    IF pc \notin {"done", "raised"} THEN "Running"
    ELSE IF pc = "raised" \/ hist.setup_fault THEN "Failed"
    ELSE IF \E i \in DOMAIN logs : logs[i] = "Sorting cancelled" THEN "Cancelled"
    ELSE "Completed"

\* C1: on every terminal path of the three operations (success, cancellation,
\* zero files) progress_cb has been called with 1.0 exactly once: never twice
\* during the run, and once when the operation has returned.
C1_ProgressOneExactlyOnce ==
    /\ Ones(progress) <= 1
    /\ (pc = "done" /\ ~hist.setup_fault) => Ones(progress) = 1

\* C2: when the stop event is set before the loop's first poll, the operation
\* processes nothing (no unit of work, no file hashed, no group, no cluster)
\* and ends in a terminal state the caller sees as Cancelled.
C2_CancelBeforeWork ==
    (pc = "done" /\ hist.stop_polls = 0 /\ hist.polls >= 1) =>
        /\ hist.units = 0
        /\ hist.hashed = {}
        /\ duplicates = <<>>
        /\ clusters = <<>>
        /\ TerminalState = "Cancelled"

\* C3: once the stop event is set and no unit of work is in progress, no
\* further unit is carried out: no file is written, hashed or analysed.
C3_StopWithinOneUnit ==
    [][(stop_event /\ pc # "body") =>
          /\ fs' = fs
          /\ hist'.units = hist.units
          /\ hist'.hashed = hist.hashed
          /\ hist'.extracted = hist.extracted]_vars

\* C4: a failure on a single item never aborts the operation (the thread only
\* ends in an exception when the enumeration of base failed), and once the
\* operation has returned every such failure has its log line.
C4_ItemFailureNeverAborts ==
    /\ pc = "raised" => hist.setup_fault
    /\ pc = "done" => hist.fault_logs = hist.faults

\* C5: at most one worker thread is alive at any time, and a start request
\* made while a worker is alive starts no thread, leaves current_worker as it
\* is and is answered with the "Busy" warning.
C5_SingleSlot ==
    /\ [](Cardinality(AliveWorkers(app)) <= 1)
    /\ [][(app'.requests # app.requests /\ AliveWorkers(app) # {}) =>
             /\ app'.threads = app.threads
             /\ app'.current_worker = app.current_worker
             /\ app'.warnings = Append(app.warnings, "Busy")]_vars

C5_Witness ==
    /\ Cardinality(AliveWorkers(app)) = 1
    /\ \E i \in DOMAIN app.warnings : app.warnings[i] = "Busy"

\* C6: unique_dest returns a path that did not exist when it was called: the
\* requested path when that is free, and otherwise the requested path with
\* " (i)" for the smallest i >= 1 whose path is free.
C6_UniqueDest ==
    hist.ud.called =>
        LET d == hist.ud.dest
            E == hist.ud.existing
            r == hist.ud.result
        IN  /\ r \notin E
            /\ d \notin E => r = d
            /\ d \in E => \E i \in 1..(Cardinality(E) + 1) :
                             /\ r = Cand(d, i)
                             /\ \A j \in 1..(i - 1) : Cand(d, j) \in E

C6_Witness ==
    /\ hist.ud.called
    /\ hist.ud.dest \in hist.ud.existing
    /\ Cand(hist.ud.dest, 1) \in hist.ud.existing
    /\ hist.ud.result = Cand(hist.ud.dest, 2)

Position(f) == CHOOSE i \in DOMAIN files : files[i] = f

GroupMembers(g) == {g.keep} \cup SeqToSet(g.delete)

\* A bucket of at least two files of one content, all of them read by sha256.
IdenticalBucket(b) ==
    LET g == SeqToSet(size_map[b].members)
    IN  /\ Cardinality(g) >= 2
        /\ \A f1, f2 \in g : fs[f1].content = fs[f2].content
        /\ \A f \in g : [file |-> f, bucket |-> b, ok |-> TRUE] \in hist.hashed

\* C7: when the scan has returned, each bucket of k >= 2 files of identical
\* content that was hashed has exactly one group in the result, the group
\* holds all k files, and its keep is the file with the largest modification
\* time, the first enumerated of those with that time.
C7_IdenticalBucket ==
    (target = "duplicate_scan_worker" /\ pc = "done" /\ Len(results) = 1) =>
        \A b \in DOMAIN size_map :
            IdenticalBucket(b) =>
                LET g == SeqToSet(size_map[b].members)
                    of_bucket == {i \in DOMAIN results[1] :
                                     GroupMembers(results[1][i]) \cap g # {}}
                IN  /\ Cardinality(of_bucket) = 1
                    /\ \A i \in of_bucket :
                         LET keep == results[1][i].keep
                         IN  /\ GroupMembers(results[1][i]) = g
                             /\ Len(results[1][i].delete) = Cardinality(g) - 1
                             /\ \A f \in g : fs[f].mtime <= fs[keep].mtime
                             /\ \A f \in g : Position(f) < Position(keep)
                                               => fs[f].mtime < fs[keep].mtime

C7_Witness ==
    /\ target = "duplicate_scan_worker" /\ pc = "done" /\ Len(results) = 1
    /\ \E b \in DOMAIN size_map :
         /\ IdenticalBucket(b)
         /\ Len(size_map[b].members) = 3
         /\ fs[size_map[b].members[1]].mtime = fs[size_map[b].members[2]].mtime
    /\ Len(results[1]) = 1

\* C8: every group handed to result_cb has a keep and a non-empty delete list
\* without repetitions that does not hold the keep, its members have one size
\* and one digest, and no file is a member of two groups of a result.
C8_GroupsWellFormed ==
    \A r \in DOMAIN results :
        target = "duplicate_scan_worker" =>
            /\ \A i \in DOMAIN results[r] :
                 LET g == results[r][i]
                 IN  /\ Len(g.delete) >= 1
                     /\ \A k \in DOMAIN g.delete : g.delete[k] # g.keep
                     /\ Cardinality(SeqToSet(g.delete)) = Len(g.delete)
                     /\ \A f \in GroupMembers(g) :
                          /\ Size(fs[f].content) = Size(fs[g.keep].content)
                          /\ sha256(fs, f) = sha256(fs, g.keep)
            /\ \A i, j \in DOMAIN results[r] :
                 i # j => GroupMembers(results[r][i]) \cap GroupMembers(results[r][j]) = {}

C8_Witness ==
    /\ target = "duplicate_scan_worker"
    /\ Len(results) = 1
    /\ Len(results[1]) >= 1
    /\ \E i \in DOMAIN results[1] : Len(results[1][i].delete) = 2

\* A bucket the loop has gone through.
Passed(b) == b < idx \/ (b = idx /\ pc = "loop")

\* C9: sha256 is only invoked on a file of a bucket of at least two files, all
\* of the size of that bucket; the members of a group come from one bucket;
\* and a bucket of one file is passed without a call of sha256 while progress
\* is reported for it.
C9_HashWithinBuckets ==
    target = "duplicate_scan_worker" =>
        /\ \A c \in hist.hashed :
             /\ Len(size_map[c.bucket].members) >= 2
             /\ c.file \in SeqToSet(size_map[c.bucket].members)
             /\ Size(fs[c.file].content) = size_map[c.bucket].key
        /\ \A i \in DOMAIN duplicates :
             \E b \in DOMAIN size_map :
                 GroupMembers(duplicates[i]) \subseteq SeqToSet(size_map[b].members)
        /\ \A b \in DOMAIN size_map :
             (Passed(b) /\ Len(size_map[b].members) = 1) =>
                 /\ \A c \in hist.hashed : c.bucket # b
                 /\ \E k \in DOMAIN progress : progress[k] = <<b, Len(size_map)>>

C9_Witness ==
    /\ target = "duplicate_scan_worker"
    /\ hist.hashed # {}
    /\ \E b \in DOMAIN size_map : Passed(b) /\ Len(size_map[b].members) = 1

\* The images analysed so far from which exactly one encoding was extracted.
SingleFace == {e \in hist.extracted : Len(e.encs) = 1}

ClustersOf(img) == {i \in DOMAIN clusters : img \in clusters[i].images}

Analysed == pc \in {"mkdir", "albums", "done", "raised"}

\* C10 as stated: after the analysis, two images whose only encodings are
\* within the threshold of each other are members of one cluster, and two
\* images each of whose encodings was beyond the threshold of every cluster
\* present are members of no common cluster.
C10_Original ==
    (target = "face_grouping_worker" /\ Analysed) =>
        /\ \A a, b \in SingleFace :
             (a.img # b.img /\ Dist(a.encs[1], b.encs[1]) < Threshold) =>
                 ClustersOf(a.img) \cap ClustersOf(b.img) # {}
        /\ \A a, b \in hist.extracted :
             (a.img # b.img /\ a.fresh /\ b.fresh /\ a.encs # <<>> /\ b.encs # <<>>) =>
                 ClustersOf(a.img) \cap ClustersOf(b.img) = {}

\* C10 as amended: of two such images within the threshold, the one analysed
\* later is a member of the cluster of the earlier one or of a cluster
\* created before it (the first cluster in creation order that matches);
\* the second part is as stated.
C10_FirstMatchingCluster ==
    (target = "face_grouping_worker" /\ Analysed) =>
        /\ \A a, b \in SingleFace :
             (Position(a.img) < Position(b.img)
                /\ Dist(a.encs[1], b.encs[1]) < Threshold) =>
                 \E i \in ClustersOf(a.img), j \in ClustersOf(b.img) :
                     /\ j <= i
                     /\ ClustersOf(a.img) = {i}
                     /\ ClustersOf(b.img) = {j}
        /\ \A a, b \in hist.extracted :
             (a.img # b.img /\ a.fresh /\ b.fresh /\ a.encs # <<>> /\ b.encs # <<>>) =>
                 ClustersOf(a.img) \cap ClustersOf(b.img) = {}

C10_Witness ==
    /\ target = "face_grouping_worker" /\ pc = "done"
    /\ Len(clusters) = 2
    /\ \E a, b \in SingleFace :
         /\ a.img # b.img
         /\ Dist(a.encs[1], b.encs[1]) < Threshold
         /\ ClustersOf(a.img) = ClustersOf(b.img)
    /\ \E a, b \in hist.extracted :
         /\ a.img # b.img /\ a.fresh /\ b.fresh /\ a.encs # <<>> /\ b.encs # <<>>

\* a <= b for fractions with positive denominators.
FracLeq(a, b) == a[1] * b[2] <= b[1] * a[2]

\* C11: within one operation the values handed to progress_cb never decrease
\* and lie in [0, 1], and they come in the order of the work: the k-th value
\* of the loop is k / total, for the k-th unit of work carried out.
C11_ProgressMonotone ==
    /\ \A i \in DOMAIN progress :
         /\ progress[i][2] > 0
         /\ 0 <= progress[i][1]
         /\ progress[i][1] <= progress[i][2]
    /\ \A i, j \in DOMAIN progress : i < j => FracLeq(progress[i], progress[j])
    /\ \A k \in 1..hist.units :
         /\ k \in DOMAIN progress
         /\ progress[k][1] = k
         /\ progress[k][2] = IF target = "duplicate_scan_worker"
                             THEN Len(size_map) ELSE Len(files)

C11_Witness ==
    /\ pc = "done"
    /\ hist.units = 2
    /\ Len(progress) = 3
    /\ ~FracLeq(progress[2], progress[1])

\* C12: detect_group returns exactly one of the ten categories for every file
\* path, the same one for the same suffix; a suffix whose lower-case form is
\* in the extension table gets that table's category whatever its MIME type;
\* otherwise the first MIME rule in list order whose prefix matches decides;
\* a suffix with no table entry and no matching MIME rule gets "Others".
C12_DetectGroup ==
    /\ \A k \in DOMAIN results :
         LET p == files[k]
             g == results[k]
             ExtGroups == {x \in DOMAIN EXTENSIONS : Lower(p.suffix) \in EXTENSIONS[x]}
             Rules == {i \in DOMAIN MIME_MAP : IsPrefix(MIME_MAP[i].key, guess_type(p))}
         IN  /\ g \in SeqToSet(DEFAULT_FOLDERS)
             /\ Cardinality(ExtGroups) <= 1
             /\ ExtGroups # {} => ExtGroups = {g}
             /\ (ExtGroups = {} /\ Rules # {}) =>
                    \E i \in Rules : /\ \A j \in Rules : i <= j
                                     /\ g = MIME_MAP[i].group
             /\ (ExtGroups = {} /\ Rules = {}) => g = "Others"
    /\ \A k, l \in DOMAIN results :
         Lower(files[k].suffix) = Lower(files[l].suffix) => results[k] = results[l]

C12_Witness ==
    /\ target = "detect_group"
    /\ pc = "done"
    /\ Len(results) = 2
    /\ files[1].suffix = ".CSV" /\ results[1] = "Spreadsheets"
    /\ files[2].suffix = ".svg" /\ results[2] = "Photos"

\* The loop left through "if stop_event.is_set(): break": one poll more than
\* units of work begun.
Broke == hist.polls > hist.units

\* What the terminal events handed to the caller (log lines, result payload)
\* say about the run.
Reported ==
    IF \E i \in DOMAIN logs : logs[i] = "Scan failed" THEN "Failed"
    ELSE IF \E i \in DOMAIN logs : logs[i] = "Sorting cancelled" THEN "Cancelled"
    ELSE IF /\ logs # <<>>
            /\ logs[Len(logs)] \in
                 {"Operation complete", "No files found", "No files to scan",
                  "Found duplicate groups", "Face recognition not installed",
                  "No photos found", "Created face albums"}
         THEN "Completed"
    ELSE "Nothing"

\* C13: the terminal events of an operation tell its three outcomes apart: a
\* run whose setup failed is reported as failed, a run that left its loop on
\* the stop event is reported as cancelled and never with the terminal events
\* of a completed run, and a run that did all its work as completed.
C13_OutcomeDistinguished ==
    /\ (pc \in {"done", "raised"} /\ hist.setup_fault) => Reported = "Failed"
    /\ (pc = "done" /\ ~hist.setup_fault /\ Broke) => Reported = "Cancelled"
    /\ (pc = "done" /\ ~hist.setup_fault /\ ~Broke) => Reported = "Completed"

\* C14: when the root cannot be enumerated, the operation still calls
\* progress_cb with 1.0 exactly once before it terminates, in sort_worker,
\* duplicate_scan_worker and face_grouping_worker alike.
C14_SetupErrorProgressOne ==
    (pc \in {"done", "raised"} /\ hist.setup_fault) => Ones(progress) = 1

\* C15: no step of a duplicate scan changes the file system: no file and no
\* directory is created, removed, renamed or rewritten, whatever the scan
\* finds and whether it completes, is cancelled or fails; the delete lists are
\* only handed to result_cb.
C15_DupScanReadOnly ==
    [][target = "duplicate_scan_worker" => (fs' = fs /\ dirs' = dirs)]_vars

C15_Witness ==
    /\ target = "duplicate_scan_worker" /\ pc = "done"
    /\ Len(results) = 1
    /\ Len(results[1]) = 1
    /\ Len(results[1][1].delete) = 2
    /\ \A i \in DOMAIN results[1][1].delete : results[1][1].delete[i] \in DOMAIN fs

\* C16: the albums are built by copying: every photo the grouping listed is
\* still at its original path at every point of the run, and when the worker
\* has handed over its result, the list of cluster i holds one path per image
\* of cluster i, each in Faces/Person_<i>, each an existing copy of its image
\* under the image's name, and Person_<i> holds nothing else; so an image in
\* m clusters has one copy in each of their m folders.
C16_AlbumsCopied ==
    target = "face_grouping_worker" =>
      /\ \A k \in DOMAIN files : files[k] \in DOMAIN fs
      /\ (pc = "done" /\ Len(results) = 1) =>
           /\ Len(results[1]) = Len(clusters)
           /\ \A i \in DOMAIN clusters :
                LET list == results[1][i]
                    imgs == clusters[i].images
                IN  /\ Len(list) = Cardinality(imgs)
                    /\ \A a, b \in DOMAIN list : a # b => list[a] # list[b]
                    /\ \A a \in DOMAIN list :
                         list[a].dir = PersonDir(i) /\ list[a] \in DOMAIN fs
                    /\ \E order \in Perms(imgs) :
                         \A a \in DOMAIN list :
                           /\ list[a].stem = order[a].stem
                           /\ list[a].suffix = order[a].suffix
                           /\ fs[list[a]] = fs[order[a]]
                    /\ {q \in DOMAIN fs : q.dir = PersonDir(i)} = SeqToSet(list)

C16_Witness ==
    /\ target = "face_grouping_worker" /\ pc = "done" /\ Len(results) = 1
    /\ \E img \in SeqToSet(files) : Cardinality(ClustersOf(img)) = 2
    /\ \E i \in DOMAIN results[1] :
         /\ Len(results[1][i]) = 2
         /\ \E a \in DOMAIN results[1][i] : results[1][i][a].n # <<>>

\* C17: without the face capability a face-album run is not fatal and not
\* silent: it raises nothing, extracts nothing, builds no cluster, creates no
\* folder and no file, and when it has returned the caller has the "not
\* installed" log line and progress 1.0, and nothing else.
C17_CapabilityAbsent ==
    (target = "face_grouping_worker" /\ ~args.FACE_AVAILABLE) =>
      /\ pc # "raised"
      /\ clusters = <<>> /\ final_groups = <<>> /\ hist.extracted = {}
      /\ \A d \in dirs : d = <<>> \/ d[1] # "Faces"
      /\ \A q \in DOMAIN fs : q.dir = <<>> \/ q.dir[1] # "Faces"
      /\ pc = "done" =>
           /\ logs = <<"Face recognition not installed">>
           /\ progress = <<One>>
           /\ results = <<>>

C17_Witness ==
    /\ target = "face_grouping_worker" /\ ~args.FACE_AVAILABLE
    /\ pc = "done"
    /\ logs = <<"Face recognition not installed">>
    /\ Cardinality(DOMAIN fs) = MaxPhotos

\* A folder is selected, a worker is alive, and no live worker runs on the
\* selected folder.
OtherRootBusy ==
    /\ app.selected_dir # ""
    /\ AliveWorkers(app) # {}
    /\ \A w \in AliveWorkers(app) : app.threads[w].root # app.selected_dir

\* C18 as stated: while an operation runs on one root, a start request for a
\* different root starts a second worker, on the selected root, next to it.
C18_Original ==
    [][(app'.requests # app.requests /\ OtherRootBusy) =>
          /\ Len(app'.threads) = Len(app.threads) + 1
          /\ app'.threads[Len(app'.threads)].root = app.selected_dir
          /\ AliveWorkers(app) \subseteq AliveWorkers(app')]_vars

\* C18: the single slot is one for the whole application, whatever the root:
\* a start request for a different root than the one the live worker runs on
\* starts nothing and is answered with the "Busy" warning, and workers on two
\* different roots are never alive together.
C18_SlotIsGlobal ==
    /\ [](\A v, w \in AliveWorkers(app) : app.threads[v].root = app.threads[w].root)
    /\ [][(app'.requests # app.requests /\ OtherRootBusy) =>
             /\ app'.threads = app.threads
             /\ app'.warnings = Append(app.warnings, "Busy")]_vars

C18_Witness ==
    /\ OtherRootBusy
    /\ app.requests = 2
    /\ Len(app.threads) = 1
    /\ app.warnings = <<"Busy">>

\* C19: every duplicate scan and every face clustering that was started and
\* has ended has handed exactly one result to its result callback: the call
\* made by Worker.run bound to the operation's parameters and its body ran to
\* the result hand-over.
C19_ResultDelivered ==
    \A w \in DOMAIN app.threads :
        ( /\ app.threads[w].target \in {"duplicate_scan_worker", "face_grouping_worker"}
          /\ app.threads[w].status = "dead" ) =>
            /\ ~app.threads[w].raised
            /\ app.threads[w].delivered = 1

\* The clusters within the threshold of a vector: those with an encoding at a
\* distance strictly below it.
Near(cl, e) ==
    {i \in DOMAIN cl : \E k \in DOMAIN cl[i].encodings :
                           Dist(cl[i].encodings[k], e) < Threshold}

\* The clusters a vector of image p must leave behind: the lowest-numbered
\* cluster of Near grown by the vector and the image, all others as they were,
\* or one more cluster at the end when Near is empty.
GreedyStep(cl, e, p) ==
    IF Near(cl, e) = {}
    THEN cl \o << [encodings |-> <<e>>, images |-> {p}] >>
    ELSE LET first == CHOOSE i \in Near(cl, e) : \A j \in Near(cl, e) : i <= j
         IN  [i \in DOMAIN cl |->
                IF i = first
                THEN [encodings |-> cl[i].encodings \o <<e>>,
                      images |-> cl[i].images \cup {p}]
                ELSE cl[i]]

\* C20: in the analysis of one image, every extracted vector, in order, goes
\* into exactly one cluster: the first in creation order that has an encoding
\* at a distance strictly below 0.6 (a distance of exactly 0.6 is no match),
\* whatever later clusters would match as well, or a new cluster appended at
\* the end when none matches; no other cluster changes.
C20_GreedyStep ==
    [][(target = "face_grouping_worker" /\ pc = "body" /\ pc' = "loop") =>
          \E call \in hist'.extracted \ hist.extracted :
             /\ call.img = files[idx]
             /\ clusters' =
                  CASE Len(call.encs) = 0 -> clusters
                    [] Len(call.encs) = 1 -> GreedyStep(clusters, call.encs[1], call.img)
                    [] Len(call.encs) = 2 ->
                         GreedyStep(GreedyStep(clusters, call.encs[1], call.img),
                                    call.encs[2], call.img)]_vars

C20_Witness ==
    /\ target = "face_grouping_worker" /\ pc = "done"
    /\ Len(clusters) = 2
    /\ clusters[1].encodings = <<5, 10>>
    /\ clusters[2].encodings = <<11>>

\* C21: at every point of a face-clustering run every cluster has at least
\* one vector and one image, and every image of a cluster was analysed and
\* gave the cluster one of its vectors; and from one step to the next the
\* number of clusters does not decrease, every cluster keeps its place, its
\* vectors (the new ones come after the old) and its images: no cluster
\* shrinks, disappears or is merged into another.
C21_ClustersGrowOnly ==
    /\ [](\A i \in DOMAIN clusters :
            /\ clusters[i].encodings # <<>>
            /\ clusters[i].images # {}
            /\ \A img \in clusters[i].images :
                 \E call \in hist.extracted :
                    /\ call.img = img
                    /\ \E k \in DOMAIN clusters[i].encodings :
                         clusters[i].encodings[k] \in SeqToSet(call.encs))
    /\ [][/\ Len(clusters') >= Len(clusters)
          /\ \A i \in DOMAIN clusters :
               /\ IsPrefix(clusters[i].encodings, clusters'[i].encodings)
               /\ clusters[i].images \subseteq clusters'[i].images]_vars

C21_Witness ==
    /\ target = "face_grouping_worker" /\ pc = "done"
    /\ Len(clusters) = 2
    /\ Len(clusters[1].encodings) = 2
    /\ Cardinality(clusters[1].images) = 2
    /\ clusters[2].images \subseteq clusters[1].images

\* The path Photos/a.jpg, which an earlier sort may have filled.
PriorPhoto == Path(<<"Photos">>, "a", <<>>, ".jpg")

\* C22: a call of safe_copy or safe_move in a sort overwrites nothing: the
\* path it returns was free before the call and holds the source's content
\* after it, and every file present before the call is present after it with
\* unchanged content at its own path (the source of a move being at the
\* returned path instead); over the batch no two calls return the same path,
\* so two sources of one name in one category get two destination paths, and
\* every written file keeps the content its source had when the files were
\* listed.
C22_NoOverwrite ==
    /\ [][(target = "sort_worker" /\ Len(hist'.placed) > Len(hist.placed)) =>
            LET f == files[idx]
                r == hist'.placed[Len(hist'.placed)]
            IN  /\ r.src = f
                /\ r.dst \notin DOMAIN fs
                /\ r.dst \in DOMAIN fs'
                /\ fs'[r.dst] = fs[f]
                /\ \A q \in DOMAIN fs :
                     (q # f \/ ~args.move_mode) => (q \in DOMAIN fs' /\ fs'[q] = fs[q])]_vars
    /\ [](\A i, j \in DOMAIN hist.placed :
            /\ i # j => hist.placed[i].dst # hist.placed[j].dst
            /\ hist.placed[i].dst \in DOMAIN fs
            /\ fs[hist.placed[i].dst] = hist.scan[hist.placed[i].src])

C22_Witness ==
    /\ target = "sort_worker" /\ pc = "done" /\ ~args.move_mode
    /\ PriorPhoto \in DOMAIN hist.scan
    /\ fs[PriorPhoto] = hist.scan[PriorPhoto]
    /\ \E i, j \in DOMAIN hist.placed :
         /\ i # j
         /\ hist.placed[i].src.dir # <<"Photos">> /\ hist.placed[j].src.dir # <<"Photos">>
         /\ hist.placed[i].src.stem = hist.placed[j].src.stem
         /\ hist.placed[i].dst.dir = <<"Photos">>
         /\ hist.placed[j].dst.dir = <<"Photos">>
         /\ hist.placed[i].dst # hist.placed[j].dst

\* The paths that hold the file f as it was when sort_worker listed it.
Holding(f) == {q \in DOMAIN fs : fs[q] = hist.scan[f]}

\* The paths safe_copy / safe_move returned for the source f.
Destinations(f) ==
    {hist.placed[i].dst : i \in {j \in DOMAIN hist.placed : hist.placed[j].src = f}}

\* C23: at every point of a sort, and so after a complete run, a cancelled
\* run and a run with failing files, every file that was listed is at its
\* original path or at its destination: it has at most one destination, which
\* lies under a category folder and holds its content; a file not placed (not
\* reached, or failed) is where it was; in copy mode the source stays as well
\* and in move mode a placed file is at its destination only.
C23_SortLosesNothing ==
    target = "sort_worker" =>
      \A k \in DOMAIN files :
        LET f == files[k]
            D == Destinations(f)
        IN  /\ Cardinality(D) <= 1
            /\ \A d \in D : d.dir # <<>> /\ d.dir[1] \in SeqToSet(DEFAULT_FOLDERS)
            /\ Holding(f) # {}
            /\ D = {} => Holding(f) = {f}
            /\ (D # {} /\ ~args.move_mode) => Holding(f) = D \cup {f}
            /\ (D # {} /\ args.move_mode) => Holding(f) = D

C23_Witness ==
    /\ target = "sort_worker" /\ pc = "done" /\ args.move_mode
    /\ stop_event /\ Broke
    /\ Len(files) = 3
    /\ hist.faults = 1
    /\ Len(hist.placed) = 1

\* C24: every file a sort places goes, under its own name, into the folder of
\* its detected category when that category is enabled or when no category
\* is enabled at all, and into Others when some categories are enabled and
\* its own is not.
C24_CategoryFilter ==
    target = "sort_worker" =>
      \A i \in DOMAIN hist.placed :
        LET src == hist.placed[i].src
            dst == hist.placed[i].dst
            g == detect_group(src)
            enabled == args.groups_selected
        IN  /\ dst.stem = src.stem /\ dst.suffix = src.suffix
            /\ dst.dir # <<>>
            /\ (enabled # {} /\ g \notin enabled) => dst.dir[1] = "Others"
            /\ (enabled # {} /\ g \in enabled) => dst.dir[1] = g
            /\ enabled = {} => dst.dir[1] = g

C24_Witness ==
    /\ target = "sort_worker" /\ pc = "done"
    /\ args.groups_selected = {"Photos"}
    /\ \E i, j \in DOMAIN hist.placed :
         /\ hist.placed[i].src.suffix = ".jpg" /\ hist.placed[i].dst.dir[1] = "Photos"
         /\ hist.placed[j].src.suffix = ".txt" /\ hist.placed[j].dst.dir[1] = "Others"

====
